---- MODULE Spec2Model ----
(***************************************************************************)
(* Model of the n8n "Video Metadata" node                                  *)
(* (src/nodes/VideoMetadata/VideoMetadata.node.ts).                        *)
(*                                                                         *)
(* The source file holds two copies of the node: the first copy (lines     *)
(* 1-482) acquires its input from binary data or from a URL, the second    *)
(* copy (lines 484-875) from binary data only.  The normalisers            *)
(* (extractFullMetadata, getDuration, getResolution) are the same in both. *)
(*                                                                         *)
(* Texts are sequences of one-character strings.  JavaScript values are    *)
(* tagged records (see JS values below); a finite number is the rational   *)
(* p/q, q > 0.  Signs, exponents and hexadecimal literals are outside the  *)
(* alphabet of the inputs the model draws, so the parsers do not treat     *)
(* them.                                                                   *)
(***************************************************************************)
EXTENDS Integers, Sequences, FiniteSets, TLC

VARIABLES
  \* execute
  copy,            \* which copy of the node runs: "first" or "second"
  continueOnFail,  \* this.continueOnFail()
  outputPropertyName,
  items,           \* this.getInputData()
  itemIndex,
  pc,              \* the place execute has reached
  tempFilePath,    \* the scratch path of the current item, or NoPath
  error,           \* the error being thrown, or NoError
  returnData,
  delivered,       \* what execute returned, or NotDelivered
  files,           \* the scratch files that exist on disk
  redirects,       \* how many redirects downloadFile has followed
  touched,         \* history: the items whose acquisition has begun
  \* the normalisers, each run on the probe's output
  stdoutDuration,    \* the output of the duration query, or undefined
  stdoutResolution,  \* the output of the resolution query, or undefined
  parsedReport,       \* the parsed output of the full dump, or undefined
  includeRawParam,
  durationResult,
  resolutionResult,
  fullResult

execVars == <<copy, continueOnFail, outputPropertyName, items, itemIndex, pc,
              tempFilePath, error, returnData, delivered, files, redirects,
              touched>>
normVars == <<stdoutDuration, stdoutResolution, parsedReport, includeRawParam,
              durationResult, resolutionResult, fullResult>>
vars == <<execVars, normVars>>

\* ------------------------------------------------------------ JS values
Num(p, q) == [t |-> "num", p |-> p, q |-> q, s |-> <<>>]
Integer(n) == Num(n, 1)
NaN == [t |-> "nan", p |-> 0, q |-> 1, s |-> <<>>]
Infinity == [t |-> "inf", p |-> 0, q |-> 1, s |-> <<>>]
undefined == [t |-> "undefined", p |-> 0, q |-> 1, s |-> <<>>]
null == [t |-> "null", p |-> 0, q |-> 1, s |-> <<>>]
Str(chars) == [t |-> "str", p |-> 0, q |-> 1, s |-> chars]

IsNum(v) == v.t = "num"

\* ToBoolean: what `v ? a : b` and `v || w` test.
Truthy(v) ==
  CASE v.t = "num" -> v.p # 0
    [] v.t = "inf" -> TRUE
    [] v.t = "str" -> v.s # <<>>
    [] OTHER -> FALSE

\* a || b
OrElse(a, b) == IF Truthy(a) THEN a ELSE b

\* ------------------------------------------------------------ texts
DigitChars == <<"0", "1", "2", "3", "4", "5", "6", "7", "8", "9">>
IsDigit(c) == \E i \in 1..10 : DigitChars[i] = c
DigitVal(c) == (CHOOSE i \in 1..10 : DigitChars[i] = c) - 1
IsSpace(c) == c \in {" ", "\n"}

RECURSIVE NatToText(_)
NatToText(n) ==
  IF n < 10 THEN <<DigitChars[n + 1]>>
  ELSE NatToText(n \div 10) \o <<DigitChars[(n % 10) + 1]>>

RECURSIVE Pow10(_)
Pow10(k) == IF k = 0 THEN 1 ELSE 10 * Pow10(k - 1)

\* String.prototype.trim
RECURSIVE TrimLeft(_)
TrimLeft(chars) ==
  IF chars # <<>> /\ IsSpace(Head(chars)) THEN TrimLeft(Tail(chars)) ELSE chars

RECURSIVE TrimRight(_)
TrimRight(chars) ==
  IF chars # <<>> /\ IsSpace(chars[Len(chars)])
  THEN TrimRight(SubSeq(chars, 1, Len(chars) - 1))
  ELSE chars

trim(chars) == TrimRight(TrimLeft(chars))

\* String.prototype.split with a one-character separator: the list of pieces.
RECURSIVE split(_, _)
split(chars, sep) ==
  IF \E i \in 1..Len(chars) : chars[i] = sep
  THEN LET i == CHOOSE j \in 1..Len(chars) :
                  chars[j] = sep /\ \A k \in 1..(j - 1) : chars[k] # sep
       IN <<SubSeq(chars, 1, i - 1)>> \o split(SubSeq(chars, i + 1, Len(chars)), sep)
  ELSE <<chars>>

\* String.prototype.startsWith
startsWith(chars, prefix) ==
  Len(chars) >= Len(prefix) /\ SubSeq(chars, 1, Len(prefix)) = prefix

\* String.prototype.padStart(len, "0")
RECURSIVE padStart(_, _)
padStart(chars, len) ==
  IF Len(chars) >= len THEN chars ELSE padStart(<<"0">> \o chars, len)

\* The longest prefix of digits.
RECURSIVE DigitPrefix(_)
DigitPrefix(chars) ==
  IF chars # <<>> /\ IsDigit(Head(chars))
  THEN <<Head(chars)>> \o DigitPrefix(Tail(chars))
  ELSE <<>>

RECURSIVE DigitsToNat(_)
DigitsToNat(chars) ==
  IF chars = <<>> THEN 0
  ELSE 10 * DigitsToNat(SubSeq(chars, 1, Len(chars) - 1)) + DigitVal(chars[Len(chars)])

RECURSIVE Log10(_)
Log10(q) == IF q < 10 THEN 0 ELSE 1 + Log10(q \div 10)

\* ------------------------------------------------------------ numbers
\* Number.prototype.toString / template-literal conversion of a value.
ToText(v) ==
  CASE v.t = "str" -> v.s
    [] v.t = "nan" -> <<"N", "a", "N">>
    [] v.t = "inf" -> <<"I", "n", "f", "i", "n", "i", "t", "y">>
    [] v.t = "undefined" -> <<"u", "n", "d", "e", "f", "i", "n", "e", "d">>
    [] v.t = "null" -> <<"n", "u", "l", "l">>
    [] v.t = "num" /\ v.q = 1 -> NatToText(v.p)
    [] OTHER ->
         NatToText(v.p \div v.q) \o <<".">>
           \o padStart(NatToText(v.p % v.q), Log10(v.q))

\* A decimal fraction in lowest terms of ten: 3000/100 is 30/1.
RECURSIVE Reduce10(_, _)
Reduce10(p, q) ==
  IF q > 1 /\ p % 10 = 0 THEN Reduce10(p \div 10, q \div 10) ELSE Num(p, q)

\* parseInt(text): leading white space skipped, then the longest run of
\* digits; NaN when there is none.
parseIntText(chars) ==
  LET ds == DigitPrefix(TrimLeft(chars))
  IN IF ds = <<>> THEN NaN ELSE Integer(DigitsToNat(ds))

\* parseFloat(text): digits, then optionally a point and digits; NaN when
\* neither part has a digit.
parseFloatText(chars) ==
  LET body == TrimLeft(chars)
      ip == DigitPrefix(body)
      rest == SubSeq(body, Len(ip) + 1, Len(body))
      fp == IF rest # <<>> /\ Head(rest) = "." THEN DigitPrefix(Tail(rest)) ELSE <<>>
  IN IF ip = <<>> /\ fp = <<>> THEN NaN
     ELSE Reduce10(DigitsToNat(ip \o fp), Pow10(Len(fp)))

\* parseInt / parseFloat of any value: the argument is converted to text
\* first, so undefined and null give NaN.
parseInt(v) ==
  IF v.t = "num" THEN Integer(v.p \div v.q) ELSE parseIntText(ToText(v))

parseFloat(v) ==
  IF v.t = "num" THEN v ELSE parseFloatText(ToText(v))

\* a / b on numbers (undefined converts to NaN).
Div(a, b) ==
  CASE a.t \in {"nan", "undefined"} \/ b.t \in {"nan", "undefined"} -> NaN
    [] a.t = "inf" /\ b.t = "inf" -> NaN
    [] a.t = "inf" -> Infinity
    [] b.t = "inf" -> Integer(0)
    [] b.p = 0 -> IF a.p = 0 THEN NaN ELSE Infinity
    [] OTHER -> Num(a.p * b.q, a.q * b.p)

\* a % n for a positive integer n.
Mod(a, n) ==
  CASE a.t = "num" -> Num(a.p % (a.q * n), a.q)
    [] OTHER -> NaN

\* Math.floor
Floor(a) ==
  CASE a.t = "num" -> Integer(a.p \div a.q)
    [] a.t = "inf" -> Infinity
    [] OTHER -> NaN

\* a >= n for an integer n; every comparison with NaN or undefined is false.
GreaterEq(a, n) ==
  CASE a.t = "num" -> a.p >= n * a.q
    [] a.t = "inf" -> TRUE
    [] OTHER -> FALSE

\* Number.prototype.toFixed(k): the nearest decimal with k digits after the
\* point, the larger one on a tie.
toFixed(v, k) ==
  CASE v.t = "nan" -> <<"N", "a", "N">>
    [] v.t = "inf" -> <<"I", "n", "f", "i", "n", "i", "t", "y">>
    [] OTHER ->
         LET whole == v.p \div v.q
             frac == (2 * (v.p % v.q) * Pow10(k) + v.q) \div (2 * v.q)
             carry == IF frac = Pow10(k) THEN 1 ELSE 0
             ip == NatToText(whole + carry)
             fp == padStart(NatToText(frac - carry * Pow10(k)), k)
         IN IF k = 0 THEN ip ELSE ip \o <<".">> \o fp

\* ------------------------------------------------------------ objects
\* A parsed JSON object is a function from its keys to values; a key the
\* object lacks reads as undefined, and so does any key of undefined
\* (optional chaining, `o?.k`).
IsUndefined(o) == "t" \in DOMAIN o /\ o.t = "undefined"

Prop(o, key) ==
  IF IsUndefined(o) THEN undefined
  ELSE IF key \in DOMAIN o THEN o[key] ELSE undefined

VideoType == Str(<<"v", "i", "d", "e", "o">>)
AudioType == Str(<<"a", "u", "d", "i", "o">>)
SubtitleType == Str(<<"s", "u", "b", "t", "i", "t", "l", "e">>)
EmptyObject == [k \in {} |-> undefined]
NotAvailable == Str(<<"N", "/", "A">>)

\* Whether `rawMetadata.streams?.` goes on: the report has a streams list.
HasStreams(rawMetadata) == "streams" \in DOMAIN rawMetadata

\* Mutant of find: the last stream of the type is taken, not the first.
findLast(rawMetadata, type) ==
  LET streams == Prop(rawMetadata, "streams")
  IN IF ~HasStreams(rawMetadata) THEN undefined
     ELSE IF \E i \in 1..Len(streams) : Prop(streams[i], "codec_type") = type
          THEN streams[CHOOSE i \in 1..Len(streams) :
                         /\ Prop(streams[i], "codec_type") = type
                         /\ \A j \in (i + 1)..Len(streams) :
                              Prop(streams[j], "codec_type") # type]
          ELSE undefined

\* rawMetadata.streams?.find((s) => s.codec_type === type)
find(rawMetadata, type) ==
  LET streams == Prop(rawMetadata, "streams")
  IN IF ~HasStreams(rawMetadata) THEN undefined
     ELSE IF \E i \in 1..Len(streams) : Prop(streams[i], "codec_type") = type
          THEN streams[CHOOSE i \in 1..Len(streams) :
                         /\ Prop(streams[i], "codec_type") = type
                         /\ \A j \in 1..(i - 1) : Prop(streams[j], "codec_type") # type]
          ELSE undefined

\* Mutant of filterCount: the filter's test is dropped, every stream counts.
filterCountAll(rawMetadata, type) ==
  LET streams == Prop(rawMetadata, "streams")
  IN IF ~HasStreams(rawMetadata) THEN Integer(0)
     ELSE OrElse(Integer(Len(streams)), Integer(0))

\* rawMetadata.streams?.filter((s) => s.codec_type === type).length || 0
filterCount(rawMetadata, type) ==
  LET streams == Prop(rawMetadata, "streams")
  IN IF ~HasStreams(rawMetadata) THEN Integer(0)
     ELSE OrElse(Integer(Cardinality({i \in 1..Len(streams) :
                                       Prop(streams[i], "codec_type") = type})),
                 Integer(0))

\* rawMetadata.streams?.length || 0
streamsLength(rawMetadata) ==
  LET streams == Prop(rawMetadata, "streams")
  IN IF ~HasStreams(rawMetadata) THEN Integer(0)
     ELSE OrElse(Integer(Len(streams)), Integer(0))

\* ------------------------------------------------------------ normalisers
\* `${hours.toString().padStart(2, "0")}:${minutes...}:${seconds...}`
formatDuration(hours, minutes, seconds) ==
  padStart(ToText(hours), 2) \o <<":">> \o padStart(ToText(minutes), 2)
    \o <<":">> \o padStart(ToText(seconds), 2)

\* The frame rate of extractFullMetadata.
frameRate(videoStream) ==
  LET rate == Prop(videoStream, "r_frame_rate")
  IN IF Truthy(rate)
     THEN LET parts == split(ToText(rate), "/")
              num == Str(parts[1])
              den == IF Len(parts) >= 2 THEN Str(parts[2]) ELSE undefined
          IN IF Truthy(den)
             THEN parseFloat(Str(toFixed(Div(parseInt(num), parseInt(den)), 2)))
             ELSE parseFloat(num)
     ELSE null

\* Mutant of streamKbps: the top-level policy (`|| 0`, no test of presence)
\* applied to a stream.
streamKbpsZero(stream) ==
  Str(toFixed(Div(OrElse(parseInt(Prop(stream, "bit_rate")), Integer(0)),
                  Integer(1000)), 0))

\* stream.bit_rate ? ((parseInt(stream.bit_rate) || 0) / 1000).toFixed(0) : null
streamKbps(stream) ==
  IF Truthy(Prop(stream, "bit_rate"))
  THEN Str(toFixed(Div(OrElse(parseInt(Prop(stream, "bit_rate")), Integer(0)),
                       Integer(1000)), 0))
  ELSE null

videoRecord(videoStream, fps) ==
  IF IsUndefined(videoStream) THEN null
  ELSE [codec |-> Prop(videoStream, "codec_name"),
        codec_long |-> Prop(videoStream, "codec_long_name"),
        profile |-> Prop(videoStream, "profile"),
        width |-> Prop(videoStream, "width"),
        height |-> Prop(videoStream, "height"),
        resolution |-> Str(ToText(Prop(videoStream, "width")) \o <<"x">>
                             \o ToText(Prop(videoStream, "height"))),
        aspect_ratio |-> OrElse(Prop(videoStream, "display_aspect_ratio"), NotAvailable),
        fps |-> fps,
        bitrate |-> OrElse(parseInt(Prop(videoStream, "bit_rate")), null),
        bitrate_kbps |-> streamKbps(videoStream),
        pixel_format |-> Prop(videoStream, "pix_fmt"),
        level |-> Prop(videoStream, "level"),
        color_space |-> Prop(videoStream, "color_space"),
        color_range |-> Prop(videoStream, "color_range")]

audioRecord(audioStream) ==
  IF IsUndefined(audioStream) THEN null
  ELSE [codec |-> Prop(audioStream, "codec_name"),
        codec_long |-> Prop(audioStream, "codec_long_name"),
        sample_rate |-> OrElse(parseInt(Prop(audioStream, "sample_rate")), null),
        sample_rate_khz |->
          IF Truthy(Prop(audioStream, "sample_rate"))
          THEN Str(toFixed(Div(OrElse(parseInt(Prop(audioStream, "sample_rate")),
                                      Integer(0)), Integer(1000)), 1))
          ELSE null,
        channels |-> Prop(audioStream, "channels"),
        channel_layout |-> Prop(audioStream, "channel_layout"),
        bitrate |-> OrElse(parseInt(Prop(audioStream, "bit_rate")), null),
        bitrate_kbps |-> streamKbps(audioStream)]

\* Mutant of attachRaw: only the format section is attached.
attachRawFormat(metadata, rawMetadata) ==
  [k \in (DOMAIN metadata) \cup {"raw"} |->
     IF k = "raw" THEN Prop(rawMetadata, "format") ELSE metadata[k]]

\* metadata.raw = rawMetadata
attachRaw(metadata, rawMetadata) ==
  [k \in (DOMAIN metadata) \cup {"raw"} |->
     IF k = "raw" THEN rawMetadata ELSE metadata[k]]

\* extractFullMetadata, from the parsed probe report on.
extractFullMetadata(rawMetadata, includeRaw) ==
  LET videoStream == find(rawMetadata, VideoType)
      audioStream == find(rawMetadata, AudioType)
      fps == frameRate(videoStream)
      format == Prop(rawMetadata, "format")
      durationSeconds == OrElse(parseFloat(Prop(format, "duration")), Integer(0))
      hours == Floor(Div(durationSeconds, Integer(3600)))
      minutes == Floor(Div(Mod(durationSeconds, 3600), Integer(60)))
      seconds == Floor(Mod(durationSeconds, 60))
      size == OrElse(parseInt(Prop(format, "size")), Integer(0))
      bitrate == OrElse(parseInt(Prop(format, "bit_rate")), Integer(0))
      metadata ==
        [filename |-> Prop(format, "filename"),
         format |-> Prop(format, "format_name"),
         format_long |-> Prop(format, "format_long_name"),
         duration |-> durationSeconds,
         duration_formatted |-> Str(formatDuration(hours, minutes, seconds)),
         size |-> size,
         size_mb |-> Str(toFixed(Div(size, Integer(1024 * 1024)), 2)),
         bitrate |-> bitrate,
         bitrate_kbps |-> Str(toFixed(Div(bitrate, Integer(1000)), 0)),
         video |-> videoRecord(videoStream, fps),
         audio |-> audioRecord(audioStream),
         streams_count |->
           [total |-> streamsLength(rawMetadata),
            video |-> filterCount(rawMetadata, VideoType),
            audio |-> filterCount(rawMetadata, AudioType),
            subtitle |-> filterCount(rawMetadata, SubtitleType)]]
  IN IF includeRaw THEN attachRaw(metadata, rawMetadata) ELSE metadata

\* Mutant of getDuration: the minutes are not reduced modulo the hour.
getDurationNoMod(stdout) ==
  LET durationSeconds == parseFloat(Str(trim(stdout)))
      hours == Floor(Div(durationSeconds, Integer(3600)))
      minutes == Floor(Div(durationSeconds, Integer(60)))
      seconds == Floor(Mod(durationSeconds, 60))
  IN [duration_seconds |-> durationSeconds,
      duration_formatted |-> Str(formatDuration(hours, minutes, seconds)),
      hours |-> hours,
      minutes |-> minutes,
      seconds |-> seconds]

\* Mutant of getDuration: the parsed duration defaults to 0, as in
\* extractFullMetadata.
getDurationOrZero(stdout) ==
  LET durationSeconds == OrElse(parseFloat(Str(trim(stdout))), Integer(0))
      hours == Floor(Div(durationSeconds, Integer(3600)))
      minutes == Floor(Div(Mod(durationSeconds, 3600), Integer(60)))
      seconds == Floor(Mod(durationSeconds, 60))
  IN [duration_seconds |-> durationSeconds,
      duration_formatted |-> Str(formatDuration(hours, minutes, seconds)),
      hours |-> hours,
      minutes |-> minutes,
      seconds |-> seconds]

\* getDuration, from the probe's output text on.
getDuration(stdout) ==
  LET durationSeconds == parseFloat(Str(trim(stdout)))
      hours == Floor(Div(durationSeconds, Integer(3600)))
      minutes == Floor(Div(Mod(durationSeconds, 3600), Integer(60)))
      seconds == Floor(Mod(durationSeconds, 60))
  IN [duration_seconds |-> durationSeconds,
      duration_formatted |-> Str(formatDuration(hours, minutes, seconds)),
      hours |-> hours,
      minutes |-> minutes,
      seconds |-> seconds]

\* Mutant of qualityOf: the Full HD threshold is exclusive.
qualityOfExclusive(height) ==
  IF GreaterEq(height, 2160) THEN "4K"
  ELSE IF GreaterEq(height, 1440) THEN "2K"
  ELSE IF GreaterEq(height, 1081) THEN "Full HD"
  ELSE IF GreaterEq(height, 720) THEN "HD"
  ELSE IF GreaterEq(height, 480) THEN "SD"
  ELSE "Low"

\* The quality tier of getResolution.
qualityOf(height) ==
  IF GreaterEq(height, 2160) THEN "4K"
  ELSE IF GreaterEq(height, 1440) THEN "2K"
  ELSE IF GreaterEq(height, 1080) THEN "Full HD"
  ELSE IF GreaterEq(height, 720) THEN "HD"
  ELSE IF GreaterEq(height, 480) THEN "SD"
  ELSE "Low"

\* getResolution, from the probe's output text on.
getResolution(stdout) ==
  LET parts == split(trim(stdout), "x")
      width == parseInt(Str(parts[1]))
      height == IF Len(parts) >= 2 THEN parseInt(Str(parts[2])) ELSE undefined
  IN [width |-> width,
      height |-> height,
      resolution |-> Str(ToText(width) \o <<"x">> \o ToText(height)),
      quality |-> qualityOf(height),
      aspect_ratio |-> Str(toFixed(Div(width, height), 2))]

\* ------------------------------------------------------------ probe outputs
\* The bounds of the inputs.
MaxHours == 2
ResSpread == 2
MaxStreams == 2

NotRun == [t |-> "notrun"]

Thresholds == {480, 720, 1080, 1440, 2160}
Heights ==
  {th + k : th \in Thresholds, k \in (0 - ResSpread)..ResSpread} \cup (0..ResSpread)
Widths == {1920}

\* What the resolution query prints for a video stream of w by h.
ResolutionText(w, h) == NatToText(w) \o <<"x">> \o NatToText(h) \o <<"\n">>

ResolutionOutputs ==
  {ResolutionText(w, h) : w \in Widths, h \in Heights}
    \cup {<<"\n">>, <<"N", "/", "A", "\n">>}

HourSet == (0..MaxHours) \cup {99, 100}
MinuteSet == {0, 2, 59}
SecondSet == {0, 5, 59}
FractionSet == {<<>>, <<".", "5">>, <<".", "9", "9">>, <<".", "5", "0", "0">>}

\* The decimal text of a duration of h hours, m minutes, s seconds and the
\* fraction f.
DurationText(h, m, s, f) == NatToText(h * 3600 + m * 60 + s) \o f

DurationTexts ==
  {DurationText(h, m, s, f) :
     h \in HourSet, m \in MinuteSet, s \in SecondSet, f \in FractionSet}

UnparsableTexts == {<<>>, <<"N", "/", "A">>}

\* A probe report that gives only the duration.
DurationReport(text) == [format |-> [duration |-> Str(text)]]

\* An object with the fields of `fields` that are not undefined.
Object(fields) ==
  [k \in {f \in DOMAIN fields : ~IsUndefined(fields[f])} |-> fields[k]]

Slash(num, den) == Str(num \o <<"/">> \o den)

FrameRates ==
  {undefined, Slash(NatToText(30000), NatToText(1001)), Str(NatToText(30)),
   Slash(NatToText(0), NatToText(0)), Slash(NatToText(25), NatToText(0)),
   Slash(<<"a", "b", "c">>, NatToText(1)), Str(<<"a", "b", "c">>)}
BitRates == {undefined, Str(NatToText(0)), NotAvailable, Str(NatToText(985400))}
SampleRates == {undefined, Str(NatToText(0)), NotAvailable, Str(NatToText(48000))}

VideoStream(rate, bitRate) ==
  Object([codec_type |-> VideoType, width |-> Integer(1920), height |-> Integer(1080),
          r_frame_rate |-> rate, bit_rate |-> bitRate])
AudioStream(sampleRate, bitRate) ==
  Object([codec_type |-> AudioType, channels |-> Integer(2),
          sample_rate |-> sampleRate, bit_rate |-> bitRate])

StreamSet ==
  {VideoStream(r, Str(NatToText(985400))) : r \in FrameRates}
    \cup {VideoStream(Slash(NatToText(25), NatToText(1)), b) : b \in BitRates}
    \cup {AudioStream(sr, Str(NatToText(128000))) : sr \in SampleRates}
    \cup {AudioStream(Str(NatToText(44100)), b) : b \in BitRates}
    \cup {[codec_type |-> SubtitleType],
          [codec_type |-> Str(<<"d", "a", "t", "a">>)]}

StreamLists == UNION {[1..n -> StreamSet] : n \in 0..MaxStreams}

FormatSet ==
  {Object([filename |-> Str(<<"v">>), duration |-> d, size |-> sz, bit_rate |-> b]) :
     d \in {undefined, NotAvailable, Str(<<"1", "2", ".", "5">>)},
     sz \in {undefined, NotAvailable, Str(NatToText(0)), Str(NatToText(15728640))},
     b \in BitRates}

DefaultFormat == Object([duration |-> Str(<<"1", "2", ".", "5">>), bit_rate |-> undefined])
DefaultStreams ==
  <<AudioStream(Str(NatToText(48000)), undefined),
    VideoStream(Slash(NatToText(30000), NatToText(1001)), undefined)>>

FullReports ==
  {EmptyObject}
    \cup {[format |-> f] : f \in FormatSet}
    \cup {[format |-> f, streams |-> DefaultStreams] : f \in FormatSet}
    \cup {[streams |-> sl] : sl \in StreamLists}
    \cup {[format |-> DefaultFormat, streams |-> sl] : sl \in StreamLists}

\* ------------------------------------------------------------ execute: data
\* The bounds of a run.
MaxItems == 2
MaxRedirects == 2

NoPath == 0
NoError == "none"
NotDelivered == [returned |-> FALSE, data |-> <<>>]

Operations == {"extractMetadata", "getDuration", "getResolution"}

EmptyUrl == <<>>
FtpUrl == <<"f", "t", "p", ":", "/", "/", "h", "/", "v">>
HttpUrl == <<"h", "t", "t", "p", ":", "/", "/", "h", "/", "v">>
ShortUrl == <<"h", "t", "t">>
HttpPrefix == <<"h", "t", "t", "p">>

\* The node parameters of one item and whether it carries a binary payload.
ItemParams ==
  {[inputMode |-> "binaryData", operation |-> op, videoUrl |-> EmptyUrl, hasBinary |-> TRUE] :
     op \in Operations \cup {"transcode"}}
    \cup {[inputMode |-> "binaryData", operation |-> "extractMetadata",
           videoUrl |-> EmptyUrl, hasBinary |-> FALSE]}
    \cup {[inputMode |-> "url", operation |-> "getDuration", videoUrl |-> u, hasBinary |-> FALSE] :
            u \in {EmptyUrl, ShortUrl, FtpUrl, HttpUrl}}

\* Input item number i (from 1), with the parameters the node reads for it.
\* Every json value is a tuple of strings.
Item(i, params) ==
  [json |-> [id |-> <<"id", ToString(i)>>, metadata |-> <<"upstream">>],
   binary |-> IF params.hasBinary THEN <<"binary", ToString(i)>> ELSE <<"undefined">>,
   params |-> params]

\* Mutant of spread: the key is written before the spread, so a key the
\* input already has keeps the input's value ({ [key]: value, ...json }).
spreadInputWins(json, key, value) ==
  [k \in (DOMAIN json) \cup {key} |-> IF k \in DOMAIN json THEN json[k] ELSE value]

\* { ...json, [key]: value }
spread(json, key, value) ==
  [k \in (DOMAIN json) \cup {key} |-> IF k = key THEN value ELSE json[k]]

\* What an operation returns for an item, as one json value.
ResultOf(operation) == <<"result", operation>>

\* The entry pushed for an item that succeeded (lines 229-237, 656-664).
outputItem(item, name, result) ==
  [json |-> spread(item.json, name, result), binary |-> item.binary]

\* The entry pushed by the catch block (lines 247-252, 675-680).
errorItem(item, message) ==
  [json |-> spread(item.json, "error", <<"message", message>>)]

\* The scratch path of the current item.  The name is built from the clock
\* and a random suffix; the model takes the names of different items to
\* differ.
tempFileName(index) == index + 1

CurrentItem == items[itemIndex + 1]

\* ------------------------------------------------------------ execute: steps
InitExec ==
  /\ copy \in {"first", "second"}
  /\ continueOnFail \in BOOLEAN
  /\ outputPropertyName \in {"metadata", "info"}
  /\ \E n \in 0..MaxItems :
       \E params \in [1..n -> ItemParams] :
         /\ copy = "second" => \A i \in 1..n : params[i].inputMode = "binaryData"
         /\ items = [i \in 1..n |-> Item(i, params[i])]
  /\ itemIndex = 0
  /\ pc = "loop"
  /\ tempFilePath = NoPath
  /\ error = NoError
  /\ returnData = <<>>
  /\ delivered = NotDelivered
  /\ files = {}
  /\ redirects = 0
  /\ touched = {}

NormIdle ==
  /\ stdoutDuration = undefined
  /\ stdoutResolution = undefined
  /\ parsedReport = undefined
  /\ includeRawParam = FALSE
  /\ durationResult = NotRun
  /\ resolutionResult = NotRun
  /\ fullResult = NotRun

Init == InitExec /\ NormIdle

\* `throw` at a place the inner try/finally does not cover.
Throw(message) ==
  /\ error' = message
  /\ pc' = "catch"

\* `throw` inside the inner try: the finally block runs first.
ThrowInTry(message) ==
  /\ error' = message
  /\ pc' = "finally"

\* The end of one iteration: itemIndex++.
NextItem ==
  /\ itemIndex' = itemIndex + 1
  /\ tempFilePath' = NoPath
  /\ error' = NoError
  /\ pc' = "loop"

\* for (...; itemIndex < items.length; ...), and `return [returnData]`.
LoopTest ==
  /\ pc = "loop"
  /\ IF itemIndex < Len(items)
     THEN pc' = "params" /\ UNCHANGED delivered
     ELSE pc' = "returned" /\ delivered' = [returned |-> TRUE, data |-> returnData]
  /\ UNCHANGED <<copy, continueOnFail, outputPropertyName, items, itemIndex,
                 tempFilePath, error, returnData, files, redirects, touched,
                 normVars>>

\* The getNodeParameter calls at the head of the try block; a lookup may
\* throw.
GetParameters ==
  /\ pc = "params"
  /\ \/ /\ pc' = IF copy = "first" /\ CurrentItem.params.inputMode # "binaryData"
                 THEN "url" ELSE "binary"
        /\ UNCHANGED error
     \/ Throw("Could not get parameter")
  /\ UNCHANGED <<copy, continueOnFail, outputPropertyName, items, itemIndex,
                 tempFilePath, returnData, delivered, files, redirects, touched,
                 normVars>>

\* assertBinaryData, getBinaryDataBuffer and the choice of the scratch path.
AcquireBinary ==
  /\ pc = "binary"
  /\ touched' = touched \cup {itemIndex}
  /\ IF ~CurrentItem.params.hasBinary
     THEN Throw("No binary data exists on item") /\ UNCHANGED tempFilePath
     ELSE \/ Throw("Could not read binary data") /\ UNCHANGED tempFilePath
          \/ /\ tempFilePath' = tempFileName(itemIndex)
             /\ pc' = "write"
             /\ UNCHANGED error
  /\ UNCHANGED <<copy, continueOnFail, outputPropertyName, items, itemIndex,
                 returnData, delivered, files, redirects, normVars>>

\* A failed writeFile: the first copy calls it before the inner try (line
\* 176), the second copy inside it (line 625).
WriteFails(message) ==
  IF copy = "first" THEN Throw(message) ELSE ThrowInTry(message)

\* await writeFile(tempFilePath, binaryDataBuffer): the file is written, or
\* the call fails before the file exists, or it fails with the file left
\* behind.
WriteFile ==
  /\ pc = "write"
  /\ \/ /\ files' = files \cup {tempFilePath}
        /\ pc' = "probe"
        /\ UNCHANGED error
     \/ /\ UNCHANGED files
        /\ WriteFails("EACCES: permission denied")
     \/ /\ files' = files \cup {tempFilePath}
        /\ WriteFails("ENOSPC: no space left on device")
  /\ UNCHANGED <<copy, continueOnFail, outputPropertyName, items, itemIndex,
                 tempFilePath, returnData, delivered, redirects, touched,
                 normVars>>

\* Mutant of CheckUrl: only the emptiness of videoUrl is tested.
CheckUrlNoPrefixTest ==
  /\ pc = "url"
  /\ touched' = touched \cup {itemIndex}
  /\ IF CurrentItem.params.videoUrl = <<>>
     THEN Throw("Invalid URL provided") /\ UNCHANGED <<tempFilePath, redirects>>
     ELSE /\ tempFilePath' = tempFileName(itemIndex)
          /\ redirects' = 0
          /\ pc' = "download"
          /\ UNCHANGED error
  /\ UNCHANGED <<copy, continueOnFail, outputPropertyName, items, itemIndex,
                 returnData, delivered, files, normVars>>

\* The url branch up to the call of downloadFile (lines 178-195).
CheckUrl ==
  /\ pc = "url"
  /\ touched' = touched \cup {itemIndex}
  /\ IF CurrentItem.params.videoUrl = <<>>
        \/ ~startsWith(CurrentItem.params.videoUrl, HttpPrefix)
     THEN Throw("Invalid URL provided") /\ UNCHANGED <<tempFilePath, redirects>>
     ELSE /\ tempFilePath' = tempFileName(itemIndex)
          /\ redirects' = 0
          /\ pc' = "download"
          /\ UNCHANGED error
  /\ UNCHANGED <<copy, continueOnFail, outputPropertyName, items, itemIndex,
                 returnData, delivered, files, normVars>>

\* downloadFile: createWriteStream(destPath) creates the file, client.get
\* issues the request.
DownloadStart ==
  /\ pc = "download"
  /\ files' = files \cup {tempFilePath}
  /\ pc' = "request"
  /\ UNCHANGED <<copy, continueOnFail, outputPropertyName, items, itemIndex,
                 tempFilePath, error, returnData, delivered, redirects,
                 touched, normVars>>

\* The request's "error" event (lines 299-302).
RequestError ==
  /\ pc = "request"
  /\ Throw("connect ECONNREFUSED")
  /\ UNCHANGED <<copy, continueOnFail, outputPropertyName, items, itemIndex,
                 tempFilePath, returnData, delivered, files, redirects,
                 touched, normVars>>

\* The response callback (lines 269-298), for a status code and whether a
\* location header came with it.
Response ==
  /\ pc = "request"
  /\ \E statusCode \in {200, 301, 302, 404}, location \in BOOLEAN :
       IF statusCode \in {301, 302} /\ location
       THEN /\ redirects < MaxRedirects
            /\ redirects' = redirects + 1
            /\ pc' = "download"
            /\ UNCHANGED error
       ELSE IF statusCode # 200
       THEN /\ Throw(IF statusCode = 404 THEN "Failed to download file: HTTP 404"
                     ELSE IF statusCode = 301 THEN "Failed to download file: HTTP 301"
                     ELSE "Failed to download file: HTTP 302")
            /\ UNCHANGED redirects
       ELSE /\ pc' = "body"
            /\ UNCHANGED <<error, redirects>>
  /\ UNCHANGED <<copy, continueOnFail, outputPropertyName, items, itemIndex,
                 tempFilePath, returnData, delivered, files, touched, normVars>>

\* response.pipe(file): the file's "finish" resolves, the file's "error"
\* rejects; when the response breaks off neither event comes and the promise
\* stays pending.
Body ==
  /\ pc = "body"
  /\ \/ pc' = "probe" /\ UNCHANGED error
     \/ Throw("ENOSPC: no space left on device")
     \/ pc' = "stalled" /\ UNCHANGED error
  /\ UNCHANGED <<copy, continueOnFail, outputPropertyName, items, itemIndex,
                 tempFilePath, returnData, delivered, files, redirects,
                 touched, normVars>>

\* The inner try block: the switch on the operation, the probe and the push
\* of the output item.
Probe ==
  /\ pc = "probe"
  /\ LET operation == CurrentItem.params.operation
     IN IF operation \notin Operations
        THEN ThrowInTry("Operation is not supported") /\ UNCHANGED returnData
        ELSE \/ ThrowInTry("Command failed") /\ UNCHANGED returnData
             \/ /\ returnData' = Append(returnData,
                     outputItem(CurrentItem, outputPropertyName, ResultOf(operation)))
                /\ pc' = "finally"
                /\ UNCHANGED error
  /\ UNCHANGED <<copy, continueOnFail, outputPropertyName, items, itemIndex,
                 tempFilePath, delivered, files, redirects, touched, normVars>>

\* The finally block: unlink(tempFilePath), its own failure swallowed; then
\* the next iteration, or the pending error goes on to the catch block.
Finally ==
  /\ pc = "finally"
  /\ files' = files \ {tempFilePath}
  /\ IF error = NoError
     THEN NextItem
     ELSE pc' = "catch" /\ UNCHANGED <<itemIndex, tempFilePath, error>>
  /\ UNCHANGED <<copy, continueOnFail, outputPropertyName, items, returnData,
                 delivered, redirects, touched, normVars>>

\* Mutant of Catch: the error entry is pushed and the loop goes on whatever
\* continueOnFail says.
CatchAlwaysContinues ==
  /\ pc = "catch"
  /\ returnData' = Append(returnData, errorItem(CurrentItem, error))
  /\ NextItem
  /\ UNCHANGED <<copy, continueOnFail, outputPropertyName, items, delivered,
                 files, redirects, touched, normVars>>

\* Mutant of Catch: with continueOnFail the failed item leaves no entry.
CatchDropsEntry ==
  /\ pc = "catch"
  /\ IF continueOnFail
     THEN UNCHANGED returnData /\ NextItem
     ELSE pc' = "thrown" /\ UNCHANGED <<returnData, itemIndex, tempFilePath, error>>
  /\ UNCHANGED <<copy, continueOnFail, outputPropertyName, items, delivered,
                 files, redirects, touched, normVars>>

\* The catch block (lines 245-256, 673-684).
Catch ==
  /\ pc = "catch"
  /\ IF continueOnFail
     THEN /\ returnData' = Append(returnData, errorItem(CurrentItem, error))
          /\ NextItem
     ELSE pc' = "thrown" /\ UNCHANGED <<returnData, itemIndex, tempFilePath, error>>
  /\ UNCHANGED <<copy, continueOnFail, outputPropertyName, items, delivered,
                 files, redirects, touched, normVars>>

Next ==
  \/ LoopTest
  \/ GetParameters
  \/ AcquireBinary
  \/ WriteFile
  \/ CheckUrl
  \/ DownloadStart
  \/ RequestError
  \/ Response
  \/ Body
  \/ Probe
  \/ Finally
  \/ Catch

Spec == Init /\ [][Next]_vars

\* ------------------------------------------------------------ execute's properties
\* Item i (from 0) has ended: the loop has moved past it, or it made
\* execute throw.
Ended(i) == i < itemIndex \/ (i = itemIndex /\ pc = "thrown")

\* C1 (as claimed): in both copies and both input modes, once the
\* processing of an item has ended, on whatever path, the scratch file
\* created for it no longer exists.
C1_ScratchReleased ==
  \A i \in 0..(Len(items) - 1) : Ended(i) => tempFileName(i) \notin files

\* The entry of an item that succeeded: the input json with the result under
\* outputPropertyName, and the input's binary payload.
IsSuccessEntry(entry, item) ==
  /\ DOMAIN entry = {"json", "binary"}
  /\ entry.binary = item.binary
  /\ DOMAIN entry.json = (DOMAIN item.json) \cup {outputPropertyName}
  /\ entry.json[outputPropertyName] = ResultOf(item.params.operation)
  /\ \A k \in (DOMAIN item.json) \ {outputPropertyName} : entry.json[k] = item.json[k]

\* The entry of an item that failed: the input json with the failure's
\* message under `error`.
IsErrorEntry(entry, item) ==
  /\ DOMAIN entry = {"json"}
  /\ DOMAIN entry.json = (DOMAIN item.json) \cup {"error"}
  /\ entry.json.error[1] = "message"
  /\ entry.json.error[2] # NoError
  /\ \A k \in DOMAIN item.json : entry.json[k] = item.json[k]

\* How many entries returnData holds when execute is at pc with the
\* current item unfinished.
EntriesDue ==
  IF pc = "finally" /\ error = NoError THEN itemIndex + 1 ELSE itemIndex

\* C2: with continue-on-fail, execute never throws, it returns exactly one
\* entry per input item, in input order, entry i being item i's success
\* entry or item i's error entry; so a failure of one item, at any step,
\* leaves the later items their turn.
C2_ContinueOnFail ==
  continueOnFail =>
    /\ pc # "thrown"
    /\ Len(returnData) = EntriesDue
    /\ \A k \in 1..Len(returnData) :
         IsSuccessEntry(returnData[k], items[k]) \/ IsErrorEntry(returnData[k], items[k])
    /\ pc = "returned" =>
         /\ delivered = [returned |-> TRUE, data |-> returnData]
         /\ Len(delivered.data) = Len(items)

C2_Witness ==
  /\ continueOnFail
  /\ pc = "returned"
  /\ Len(items) = 2
  /\ Len(delivered.data) = 2
  /\ IsErrorEntry(delivered.data[1], items[1])
  /\ IsSuccessEntry(delivered.data[2], items[2])

\* What holds in every state of a run without continue-on-fail.
C3_AbortState ==
  ~continueOnFail =>
    /\ \A k \in 1..Len(returnData) : IsSuccessEntry(returnData[k], items[k])
    /\ error # NoError => pc \in {"finally", "catch", "thrown"}
    /\ pc = "thrown" =>
         /\ error # NoError
         /\ delivered = NotDelivered
         /\ \A i \in touched : i <= itemIndex

\* What every step taken with an error pending does.
C3_AbortStep ==
  (~continueOnFail /\ error # NoError) =>
    /\ pc # "thrown"
    /\ pc' \in {"catch", "thrown"}
    /\ pc = "catch" => pc' = "thrown"
    /\ error' = error
    /\ itemIndex' = itemIndex
    /\ touched' = touched
    /\ returnData' = returnData
    /\ delivered' = NotDelivered

\* C3: without continue-on-fail, the first failure aborts the run: from the
\* moment an item's error is raised no later item is taken up, nothing is
\* added to the output, execute ends throwing that error and returns no
\* output list.
C3_FailFast == []C3_AbortState /\ [][C3_AbortStep]_vars

C3_Witness ==
  /\ ~continueOnFail
  /\ pc = "thrown"
  /\ itemIndex = 1
  /\ Len(items) = 2
  /\ Len(returnData) = 1
  /\ delivered = NotDelivered

\* An entry pushed for a success: the only entries with a binary key.
SuccessEntries == {k \in 1..Len(returnData) : "binary" \in DOMAIN returnData[k]}

\* What holds of every success entry, against the input item it came from.
C11_EntryFrame ==
  \A k \in SuccessEntries :
    LET entry == returnData[k]
        item == items[k]
    IN /\ \A key \in DOMAIN item.json :
            /\ key \in DOMAIN entry.json
            /\ key # outputPropertyName => entry.json[key] = item.json[key]
       /\ DOMAIN entry.json \subseteq (DOMAIN item.json) \cup {outputPropertyName}
       /\ entry.json[outputPropertyName] = <<"result", item.params.operation>>
       /\ entry.binary = item.binary
       /\ item.json.metadata = <<"upstream">>
       /\ item.json.id = <<"id", ToString(k)>>

\* C11: a success entry's json has every key of the input item's json with
\* its value unchanged, except the key named by outputPropertyName, which
\* holds the operation's result (overwriting an input key of that name); the
\* input's binary payload is passed through, and no step changes the input
\* items.
C11_SuccessFrame == []C11_EntryFrame /\ [][items' = items]_vars

C11_Witness ==
  /\ pc = "returned"
  /\ outputPropertyName = "metadata"
  /\ Len(delivered.data) = 2
  /\ 2 \in SuccessEntries
  /\ items[2].json.metadata = <<"upstream">>
  /\ delivered.data[2].json.metadata = <<"result", "getResolution">>
  /\ delivered.data[2].json.id = <<"id", "2">>
  /\ delivered.data[2].binary = <<"binary", "2">>

\* Whether a url text begins with the four characters h, t, t, p.
IsHttp(url) ==
  /\ Len(url) >= 4
  /\ url[1] = "h" /\ url[2] = "t" /\ url[3] = "t" /\ url[4] = "p"

\* The url-mode items (1-based) whose videoUrl the check must refuse.
RefusedItems ==
  {i \in 1..Len(items) :
     items[i].params.inputMode = "url" /\ ~IsHttp(items[i].params.videoUrl)}

\* While a refused item is the current one, no download, body transfer or
\* probe is under way, and its scratch file never exists; its entry, once
\* pushed, carries the message.
C14_NoSideEffect ==
  \A i \in RefusedItems :
    /\ tempFileName(i - 1) \notin files
    /\ (itemIndex = i - 1 /\ pc \notin {"loop", "returned", "thrown"}) =>
         pc \in {"params", "url", "catch"}
    /\ (itemIndex = i - 1 /\ pc = "catch") =>
         error \in {"Invalid URL provided", "Could not get parameter"}
    /\ (i <= Len(returnData) /\ "error" \in DOMAIN returnData[i].json) =>
         returnData[i].json.error \in {<<"message", "Invalid URL provided">>,
                                       <<"message", "Could not get parameter">>}

\* The step taken from the url check.
C14_CheckStep ==
  pc = "url" =>
    IF IsHttp(CurrentItem.params.videoUrl)
    THEN pc' = "download" /\ error' = error
    ELSE pc' = "catch" /\ error' = "Invalid URL provided" /\ files' = files

\* C14: in url mode an item whose videoUrl is empty or does not begin with
\* "http" fails with "Invalid URL provided" before any side effect (no
\* scratch file, no request, no probe for that item), and every videoUrl
\* that begins with "http" goes on to downloadFile.
C14_InvalidUrl == []C14_NoSideEffect /\ [][C14_CheckStep]_vars

C14_Witness ==
  /\ pc = "catch"
  /\ itemIndex = 1
  /\ items[1].params.videoUrl = HttpUrl
  /\ Len(returnData) = 1
  /\ CurrentItem.params.inputMode = "url"
  /\ CurrentItem.params.videoUrl = ShortUrl
  /\ error = "Invalid URL provided"
  /\ files = {}

\* execute under the event loop's scheduling: a step that can be taken is
\* eventually taken, so every awaited call, every request (which gets a
\* response or a request error) and every body transfer that still has an
\* event to come moves on.
SpecLive == Init /\ [][Next]_vars /\ WF_vars(Next)

\* C15: the promise of downloadFile is eventually resolved (the run goes on
\* to the probe) or rejected (the run goes to the catch block) for every
\* sequence of responses, redirect chains and interrupted body transfers
\* included, and it resolves only out of the transfer of a status-200 body.
C15_DownloadSettles ==
  /\ [](pc = "download" => <>(pc \in {"probe", "catch"}))
  /\ [][(pc \in {"download", "request", "body"} /\ pc' = "probe") => pc = "body"]_vars

\* ------------------------------------------------------------ normaliser runs
ExecIdle ==
  /\ copy = "first"
  /\ continueOnFail = FALSE
  /\ outputPropertyName = "metadata"
  /\ items = <<>>
  /\ itemIndex = 0
  /\ pc = "idle"
  /\ tempFilePath = NoPath
  /\ error = NoError
  /\ returnData = <<>>
  /\ delivered = NotDelivered
  /\ files = {}
  /\ redirects = 0
  /\ touched = {}

InitResolution ==
  /\ stdoutResolution \in {Str(text) : text \in ResolutionOutputs}
  /\ stdoutDuration = undefined
  /\ parsedReport = undefined
  /\ includeRawParam = FALSE

InitDuration ==
  /\ \E text \in DurationTexts \cup UnparsableTexts :
       /\ stdoutDuration = Str(text \o <<"\n">>)
       /\ parsedReport = DurationReport(text)
  /\ stdoutResolution = undefined
  /\ includeRawParam = FALSE

InitFull ==
  /\ parsedReport \in FullReports
  /\ includeRawParam \in BOOLEAN
  /\ stdoutDuration = undefined
  /\ stdoutResolution = undefined

InitNorm ==
  /\ ExecIdle
  /\ InitResolution \/ InitDuration \/ InitFull
  /\ durationResult = NotRun
  /\ resolutionResult = NotRun
  /\ fullResult = NotRun

RunGetResolution ==
  /\ ~IsUndefined(stdoutResolution)
  /\ resolutionResult = NotRun
  /\ resolutionResult' = getResolution(stdoutResolution.s)
  /\ UNCHANGED <<execVars, stdoutDuration, stdoutResolution, parsedReport,
                 includeRawParam, durationResult, fullResult>>

RunGetDuration ==
  /\ ~IsUndefined(stdoutDuration)
  /\ durationResult = NotRun
  /\ durationResult' = getDuration(stdoutDuration.s)
  /\ UNCHANGED <<execVars, stdoutDuration, stdoutResolution, parsedReport,
                 includeRawParam, resolutionResult, fullResult>>

RunExtractFullMetadata ==
  /\ ~IsUndefined(parsedReport)
  /\ fullResult = NotRun
  /\ fullResult' = extractFullMetadata(parsedReport, includeRawParam)
  /\ UNCHANGED <<execVars, stdoutDuration, stdoutResolution, parsedReport,
                 includeRawParam, durationResult, resolutionResult>>

NextNorm == RunGetResolution \/ RunGetDuration \/ RunExtractFullMetadata

SpecNorm == InitNorm /\ [][NextNorm]_vars

\* ------------------------------------------------------------ the normalisers' properties
\* The tier q is the one the thresholds give the height h.
TierOf(h, q) ==
  /\ q = "4K" <=> h >= 2160
  /\ q = "2K" <=> (1440 <= h /\ h < 2160)
  /\ q = "Full HD" <=> (1080 <= h /\ h < 1440)
  /\ q = "HD" <=> (720 <= h /\ h < 1080)
  /\ q = "SD" <=> (480 <= h /\ h < 720)
  /\ q = "Low" <=> h < 480

TierRank(q) ==
  CASE q = "Low" -> 0 [] q = "SD" -> 1 [] q = "HD" -> 2
    [] q = "Full HD" -> 3 [] q = "2K" -> 4 [] q = "4K" -> 5

\* C4: for every integer height, getResolution's quality is "4K" iff
\* height >= 2160, "2K" iff 1440 <= height < 2160, "Full HD" iff
\* 1080 <= height < 1440, "HD" iff 720 <= height < 1080, "SD" iff
\* 480 <= height < 720 and "Low" iff height < 480; and a larger height never
\* yields a lower tier.
C4_ResolutionTiers ==
  resolutionResult # NotRun =>
    \A w \in Widths, h \in Heights :
      stdoutResolution = Str(ResolutionText(w, h)) =>
        /\ resolutionResult.height = Integer(h)
        /\ TierOf(h, resolutionResult.quality)
        /\ \A h2 \in Heights :
             h2 <= h =>
               TierRank(getResolution(ResolutionText(w, h2)).quality)
                 <= TierRank(resolutionResult.quality)

C4_Witness ==
  /\ stdoutResolution = Str(ResolutionText(1920, 1080))
  /\ resolutionResult # NotRun
  /\ resolutionResult.quality = "Full HD"

\* The text is h, m and s joined by colons, each of two digits or more
\* and zero-padded only up to two.
IsDigits(chars) == \A i \in 1..Len(chars) : IsDigit(chars[i])

FormattedAs(text, h, m, s) ==
  LET parts == split(text, ":")
      want == <<h, m, s>>
  IN /\ Len(parts) = 3
     /\ \A i \in 1..3 :
          /\ Len(parts[i]) >= 2
          /\ IsDigits(parts[i])
          /\ DigitsToNat(parts[i]) = want[i]
          /\ Len(parts[i]) > 2 => parts[i][1] # "0"

\* C5: for every non-negative duration d, getDuration gives
\* hours = floor(d/3600), minutes = floor((d mod 3600)/60), seconds =
\* floor(d mod 60), with 0 <= minutes, seconds <= 59 and hours*3600 +
\* minutes*60 + seconds = floor(d); the formatted text is the three parts
\* joined by ':', each padded with zeros to at least 2 digits, hours of 100
\* or more keeping all their digits; extractFullMetadata gives the same
\* duration and the same formatted text for the same d.
C5_DurationDecomposition ==
  \A h \in HourSet, m \in MinuteSet, s \in SecondSet, f \in FractionSet :
    stdoutDuration = Str(DurationText(h, m, s, f) \o <<"\n">>) =>
      /\ durationResult # NotRun =>
           LET d == durationResult.duration_seconds
           IN /\ durationResult.hours = Integer(h)
              /\ durationResult.minutes = Integer(m)
              /\ durationResult.seconds = Integer(s)
              /\ IsNum(d)
              /\ durationResult.hours.p * 3600 + durationResult.minutes.p * 60
                   + durationResult.seconds.p = d.p \div d.q
              /\ FormattedAs(durationResult.duration_formatted.s, h, m, s)
      /\ fullResult # NotRun =>
           FormattedAs(fullResult.duration_formatted.s, h, m, s)
      /\ (durationResult # NotRun /\ fullResult # NotRun) =>
           /\ fullResult.duration = durationResult.duration_seconds
           /\ fullResult.duration_formatted = durationResult.duration_formatted

C5_Witness ==
  /\ stdoutDuration = Str(<<"7", "3", "2", "5", ".", "5", "\n">>)
  /\ durationResult # NotRun
  /\ fullResult # NotRun
  /\ durationResult.hours = Integer(2)
  /\ durationResult.minutes = Integer(2)
  /\ durationResult.seconds = Integer(5)
  /\ durationResult.duration_formatted
       = Str(<<"0", "2", ":", "0", "2", ":", "0", "5">>)

\* C6 (as claimed): in full extraction no derived numeric field of the
\* output (duration, size, bitrate, video.fps, video.bitrate,
\* audio.sample_rate, audio.bitrate) is ever NaN, whatever the report and
\* whatever the video stream's r_frame_rate.
C6_NoNaN ==
  fullResult # NotRun =>
    /\ fullResult.duration # NaN
    /\ fullResult.size # NaN
    /\ fullResult.bitrate # NaN
    /\ fullResult.video # null =>
         (fullResult.video.fps # NaN /\ fullResult.video.bitrate # NaN)
    /\ fullResult.audio # null =>
         (fullResult.audio.sample_rate # NaN /\ fullResult.audio.bitrate # NaN)

\* The number of streams of a codec_type.
RECURSIVE CountType(_, _)
CountType(streams, type) ==
  IF streams = <<>> THEN 0
  ELSE (IF "codec_type" \in DOMAIN Head(streams) /\ Head(streams).codec_type = type
        THEN 1 ELSE 0) + CountType(Tail(streams), type)

\* C7: with no streams field, video and audio are null and the four stream
\* counts are 0; with a streams list, total is its length and the video,
\* audio and subtitle counts are the numbers of streams of that codec_type.
C7_StreamCounts ==
  fullResult # NotRun =>
    LET counts == fullResult.streams_count
    IN IF "streams" \in DOMAIN parsedReport
       THEN /\ counts.total = Integer(Len(parsedReport.streams))
            /\ counts.video = Integer(CountType(parsedReport.streams, VideoType))
            /\ counts.audio = Integer(CountType(parsedReport.streams, AudioType))
            /\ counts.subtitle = Integer(CountType(parsedReport.streams, SubtitleType))
            /\ counts.total.p >= counts.video.p + counts.audio.p + counts.subtitle.p
       ELSE /\ fullResult.video = null
            /\ fullResult.audio = null
            /\ counts.total = Integer(0)
            /\ counts.video = Integer(0)
            /\ counts.audio = Integer(0)
            /\ counts.subtitle = Integer(0)

C7_Witness ==
  /\ fullResult # NotRun
  /\ "format" \in DOMAIN parsedReport
  /\ "streams" \notin DOMAIN parsedReport
  /\ fullResult.video = null
  /\ fullResult.streams_count.total = Integer(0)

\* The report has no such key in that section (or no such section).
Lacks(report, section, key) ==
  section \notin DOMAIN report \/ key \notin DOMAIN report[section]

FirstIndex(streams, type) ==
  CHOOSE i \in 1..Len(streams) :
    /\ "codec_type" \in DOMAIN streams[i] /\ streams[i].codec_type = type
    /\ \A j \in 1..(i - 1) :
         ~("codec_type" \in DOMAIN streams[j] /\ streams[j].codec_type = type)

SelectedLacksBitRate(report, type) ==
  /\ "streams" \in DOMAIN report
  /\ CountType(report.streams, type) > 0
  /\ "bit_rate" \notin DOMAIN report.streams[FirstIndex(report.streams, type)]

\* C8: when format.bit_rate is absent the top-level bitrate is 0 and
\* bitrate_kbps is the text "0"; when the selected (first) video or audio
\* stream has no bit_rate, that sub-record's bitrate and bitrate_kbps are
\* both null.
C8_BitrateAbsence ==
  fullResult # NotRun =>
    /\ Lacks(parsedReport, "format", "bit_rate") =>
         (fullResult.bitrate = Integer(0) /\ fullResult.bitrate_kbps = Str(<<"0">>))
    /\ SelectedLacksBitRate(parsedReport, VideoType) =>
         (fullResult.video.bitrate = null /\ fullResult.video.bitrate_kbps = null)
    /\ SelectedLacksBitRate(parsedReport, AudioType) =>
         (fullResult.audio.bitrate = null /\ fullResult.audio.bitrate_kbps = null)

C8_Witness ==
  /\ fullResult # NotRun
  /\ Lacks(parsedReport, "format", "bit_rate")
  /\ SelectedLacksBitRate(parsedReport, VideoType)
  /\ SelectedLacksBitRate(parsedReport, AudioType)
  /\ fullResult.bitrate_kbps = Str(<<"0">>)
  /\ fullResult.video.bitrate_kbps = null
  /\ fullResult.audio.bitrate_kbps = null

\* C9: with includeRaw false the record has no `raw` key; with includeRaw
\* true its `raw` value is exactly the parsed input report.
C9_IncludeRaw ==
  fullResult # NotRun =>
    IF includeRawParam
    THEN "raw" \in DOMAIN fullResult /\ fullResult.raw = parsedReport
    ELSE "raw" \notin DOMAIN fullResult

C9_Witness ==
  /\ fullResult # NotRun
  /\ includeRawParam
  /\ "streams" \in DOMAIN parsedReport
  /\ "format" \in DOMAIN parsedReport
  /\ fullResult.raw = parsedReport

ZeroDuration == Str(<<"0", "0", ":", "0", "0", ":", "0", "0">>)

\* C10: on an unparsable duration text getDuration returns NaN for
\* duration_seconds, hours, minutes and seconds, while extractFullMetadata,
\* on the same unparsable or on a missing format.duration, gives duration 0
\* and duration_formatted "00:00:00".
C10_UnparsableDuration ==
  /\ \A text \in UnparsableTexts :
       stdoutDuration = Str(text \o <<"\n">>) =>
         /\ durationResult # NotRun =>
              /\ durationResult.duration_seconds = NaN
              /\ durationResult.hours = NaN
              /\ durationResult.minutes = NaN
              /\ durationResult.seconds = NaN
         /\ fullResult # NotRun =>
              (fullResult.duration = Integer(0)
                 /\ fullResult.duration_formatted = ZeroDuration)
  /\ (fullResult # NotRun /\ Lacks(parsedReport, "format", "duration")) =>
       (fullResult.duration = Integer(0)
          /\ fullResult.duration_formatted = ZeroDuration)

C10_Witness ==
  /\ stdoutDuration = Str(<<"N", "/", "A", "\n">>)
  /\ durationResult # NotRun
  /\ fullResult # NotRun
  /\ durationResult.hours = NaN
  /\ fullResult.duration = Integer(0)

\* The number of streams of a type in a report (0 without a streams list).
StreamsOfType(report, type) ==
  IF "streams" \in DOMAIN report THEN CountType(report.streams, type) ELSE 0

\* The first stream of a type in a report's list.
FirstStream(report, type) == report.streams[FirstIndex(report.streams, type)]

\* C12: the video (audio) sub-record is non-null exactly when the streams
\* list has a stream of codec_type video (audio), equivalently when
\* streams_count.video (audio) is above 0, and then every field of it comes
\* from the first such stream in list order, whatever precedes or follows.
C12_FirstStream ==
  fullResult # NotRun =>
    /\ (fullResult.video # null) <=> (StreamsOfType(parsedReport, VideoType) > 0)
    /\ (fullResult.audio # null) <=> (StreamsOfType(parsedReport, AudioType) > 0)
    /\ (fullResult.video # null) <=> (fullResult.streams_count.video.p > 0)
    /\ (fullResult.audio # null) <=> (fullResult.streams_count.audio.p > 0)
    /\ StreamsOfType(parsedReport, VideoType) > 0 =>
         LET first == FirstStream(parsedReport, VideoType)
         IN fullResult.video = videoRecord(first, frameRate(first))
    /\ StreamsOfType(parsedReport, AudioType) > 0 =>
         fullResult.audio = audioRecord(FirstStream(parsedReport, AudioType))

C12_Witness ==
  /\ fullResult # NotRun
  /\ parsedReport =
       [streams |-> <<VideoStream(Str(<<"3", "0">>), Str(NatToText(985400))),
                      VideoStream(Slash(NatToText(25), NatToText(1)), Str(<<"0">>))>>]
  /\ fullResult.video.fps = Integer(30)
  /\ fullResult.video.bitrate = Integer(985400)
  /\ fullResult.audio = null
  /\ fullResult.streams_count.video = Integer(2)

\* C13: in a video or audio sub-record a numeric field and its rendered
\* companion are null together: video.bitrate and video.bitrate_kbps,
\* audio.bitrate and audio.bitrate_kbps, audio.sample_rate and
\* audio.sample_rate_khz, whatever the stream's bit_rate or sample_rate is
\* (absent, "0", "N/A", a positive integer text).
C13_NullTogether ==
  fullResult # NotRun =>
    /\ fullResult.video # null =>
         ((fullResult.video.bitrate = null) <=> (fullResult.video.bitrate_kbps = null))
    /\ fullResult.audio # null =>
         /\ (fullResult.audio.bitrate = null) <=> (fullResult.audio.bitrate_kbps = null)
         /\ (fullResult.audio.sample_rate = null)
              <=> (fullResult.audio.sample_rate_khz = null)

====
